---- MODULE Spec2Model ----
(***************************************************************************)
(* Model of the Investify backend: the company, KYC, financials, files,    *)
(* score and auth routes acting on the persistent store, the investability *)
(* score computed by GET /api/score, and the onboarding wizard of the      *)
(* frontend.                                                               *)
(*                                                                         *)
(* Every route handler is one action.  The store is the set of tables the  *)
(* handlers read and write through the ORM; `response` is the reply of the *)
(* last handler that ran; `messages` is the message table; `session` is   *)
(* the session cookie the browser                                          *)
(* holds; `wizard` is the state of the onboarding page; `requests` are     *)
(* score requests in flight at their await.                                *)
(*                                                                         *)
(* Revenue is modelled in whole dollars.  For whole-dollar revenues the    *)
(* double-precision result of Math.floor(Math.min(r / 1000000, 1) * 25)    *)
(* equals the exact value (r * 25) \div 1000000 capped at 25, so the       *)
(* integer arithmetic below is the arithmetic of the code.                 *)
(***************************************************************************)
EXTENDS Integers, Sequences, FiniteSets, Bags, TLC

VARIABLES users, companies, documents, nextDocumentId, notifications, response,
          messages, session, wizard, requests

vars == <<users, companies, documents, nextDocumentId, notifications, response,
          messages, session, wizard, requests>>

\* The tables of the database.
store == <<users, companies, documents, nextDocumentId, notifications>>

(***************************************************************************)
(* Bounds of the model.                                                    *)
(***************************************************************************)
\* Highest document id the store hands out (number of successful uploads).
MaxDocumentId == 4
\* Highest number of KYC (resp. financials) notifications created.
MaxVerifications == 2

(***************************************************************************)
(* Program constants.                                                      *)
(***************************************************************************)
\* The hardcoded demo user of every data route.
DemoUserId == 1
\* Revenue at which the revenue scale factor reaches 1.
RevenueCap == 1000000
\* File size limit of an upload, 5 * 1024 * 1024 bytes.
MaxFileSize == 5242880

KycMaxPoints == 30
FinancialsMaxPoints == 20
DocumentsMaxPoints == 25
RevenueMaxPoints == 25
DocumentsRequired == 3
ScoreMax == 100

\* Revenues a request body may carry (CreateCompanySchema: revenue >= 0).
RevenueValues ==
  {0, 1, 39999, 40000, 79999, 80000, 999999, 1000000, 1000001, 2000000}

\* A revenue the schema rejects.
NegativeRevenue == 0 - 1

AllowedTypes ==
  {"application/pdf",
   "application/vnd.openxmlformats-officedocument.spreadsheetml.sheet",
   "application/vnd.openxmlformats-officedocument.presentationml.presentation"}

\* MIME types an upload may carry: an allowed one and one that is not.
MimeTypes == {"application/pdf", "image/png"}

\* Values of data.file.bytesRead an upload may show at the size check.
BytesReadValues == {0, MaxFileSize + 1}

(***************************************************************************)
(* Number and string helpers.                                              *)
(***************************************************************************)
Min(a, b) == IF a <= b THEN a ELSE b

\* Math.floor of the rational num / den, den > 0, num >= 0.
Floor(num, den) == num \div den

\* Three digits, zero padded: a group of toLocaleString after the first.
Pad3(n) ==
  IF n < 10 THEN "00" \o ToString(n)
  ELSE IF n < 100 THEN "0" \o ToString(n)
  ELSE ToString(n)

RECURSIVE ToLocaleString(_)
\* Number.prototype.toLocaleString() of a non-negative integer (en-US).
ToLocaleString(n) ==
  IF n < 1000 THEN ToString(n)
  ELSE ToLocaleString(n \div 1000) \o "," \o Pad3(n % 1000)

(***************************************************************************)
(* Store queries.                                                          *)
(***************************************************************************)
\* prisma.company.findFirst({ where: { userId } }): the id of the first
\* company of the user, 0 when there is none.
FindFirstCompany(userId) ==
  IF \E i \in 1..Len(companies) : companies[i].userId = userId
  THEN CHOOSE i \in 1..Len(companies) :
         /\ companies[i].userId = userId
         /\ \A j \in 1..(i - 1) : companies[j].userId # userId
  ELSE 0

\* include: { documents: true }: the documents of a company.
DocumentsOf(companyId) == {d \in documents : d.companyId = companyId}

\* A new row of the notification table.
Notification(userId, type) == [userId |-> userId, type |-> type, readAt |-> "null"]

\* Values of new Date() when a notification is marked as read.
Dates == {"date", "later date"}

CreateNotification(userId, type) ==
  notifications (+) SetToBag({Notification(userId, type)})

NotificationCount(type) ==
  CopiesIn(Notification(DemoUserId, type), notifications)
    + CopiesIn([Notification(DemoUserId, type) EXCEPT !.readAt = "date"], notifications)
    + CopiesIn([Notification(DemoUserId, type) EXCEPT !.readAt = "later date"], notifications)

(***************************************************************************)
(* The investability score, GET /api/score.                                *)
(***************************************************************************)
KycReason == "KYC verified"
FinancialsReason == "Financials linked"
DocumentsFullReason(docCount) == ToString(docCount) \o " docs uploaded"
DocumentsPartReason(docCount) ==
  ToString(docCount) \o " docs uploaded (need 3+ for full points)"
RevenueReason(revenue) == "Revenue scaled to $" \o ToLocaleString(revenue)

\* KycStep with the test negated: points for a company that is not verified.
KycStepNegated(company, acc) ==
  IF ~company.kycVerified
  THEN [score |-> acc.score + KycMaxPoints, reasons |-> Append(acc.reasons, KycReason)]
  ELSE acc

\* KycStep with the points subtracted instead of added.
KycStepSubtracts(company, acc) ==
  IF company.kycVerified
  THEN [score |-> acc.score - KycMaxPoints, reasons |-> Append(acc.reasons, KycReason)]
  ELSE acc

\* score and reasons after the KYC step.
KycStep(company, acc) ==
  IF company.kycVerified
  THEN [score |-> acc.score + KycMaxPoints, reasons |-> Append(acc.reasons, KycReason)]
  ELSE acc

\* FinancialsStep testing the KYC flag instead of the financials flag.
FinancialsStepChecksKyc(company, acc) ==
  IF company.kycVerified
  THEN [score |-> acc.score + FinancialsMaxPoints,
        reasons |-> Append(acc.reasons, FinancialsReason)]
  ELSE acc

\* score and reasons after the financials step.
FinancialsStep(company, acc) ==
  IF company.financialsLinked
  THEN [score |-> acc.score + FinancialsMaxPoints,
        reasons |-> Append(acc.reasons, FinancialsReason)]
  ELSE acc

\* DocumentsStep whose second branch is a plain else: a reason at 0 documents.
DocumentsStepAlwaysReason(docCount, acc) ==
  IF docCount >= DocumentsRequired
  THEN [score |-> acc.score + DocumentsMaxPoints,
        reasons |-> Append(acc.reasons, DocumentsFullReason(docCount))]
  ELSE [score |-> acc.score + Floor(docCount * DocumentsMaxPoints, DocumentsRequired),
        reasons |-> Append(acc.reasons, DocumentsPartReason(docCount))]

\* DocumentsStep rounding the partial points up (Math.ceil) instead of down.
DocumentsStepCeil(docCount, acc) ==
  IF docCount >= DocumentsRequired
  THEN [score |-> acc.score + DocumentsMaxPoints,
        reasons |-> Append(acc.reasons, DocumentsFullReason(docCount))]
  ELSE IF docCount > 0
  THEN [score |-> acc.score
                    + Floor(docCount * DocumentsMaxPoints + DocumentsRequired - 1,
                            DocumentsRequired),
        reasons |-> Append(acc.reasons, DocumentsPartReason(docCount))]
  ELSE acc

\* DocumentsStep with the operands of the division swapped: (3 / docCount) * 25.
DocumentsStepSwapped(docCount, acc) ==
  IF docCount >= DocumentsRequired
  THEN [score |-> acc.score + DocumentsMaxPoints,
        reasons |-> Append(acc.reasons, DocumentsFullReason(docCount))]
  ELSE IF docCount > 0
  THEN [score |-> acc.score + Floor(DocumentsRequired * DocumentsMaxPoints, docCount),
        reasons |-> Append(acc.reasons, DocumentsPartReason(docCount))]
  ELSE acc

\* DocumentsStep without the full-points branch: linear in docCount, uncapped.
DocumentsStepLinear(docCount, acc) ==
  IF docCount > 0
  THEN [score |-> acc.score + Floor(docCount * DocumentsMaxPoints, DocumentsRequired),
        reasons |-> Append(acc.reasons, DocumentsFullReason(docCount))]
  ELSE acc

\* score and reasons after the documents step.
DocumentsStep(docCount, acc) ==
  IF docCount >= DocumentsRequired
  THEN [score |-> acc.score + DocumentsMaxPoints,
        reasons |-> Append(acc.reasons, DocumentsFullReason(docCount))]
  ELSE IF docCount > 0
  THEN [score |-> acc.score + Floor(docCount * DocumentsMaxPoints, DocumentsRequired),
        reasons |-> Append(acc.reasons, DocumentsPartReason(docCount))]
  ELSE acc

\* RevenuePoints without Math.min: the scale factor is not capped at 1.
RevenuePointsUncapped(revenue) == Floor(revenue * RevenueMaxPoints, RevenueCap)

\* RevenuePoints with the operands of the division swapped: 1000000 / revenue
\* (Infinity at revenue 0, which Math.min caps at 1).
RevenuePointsSwapped(revenue) ==
  IF revenue <= RevenueCap
  THEN Floor(RevenueCap * RevenueMaxPoints, RevenueCap)
  ELSE Floor(RevenueCap * RevenueMaxPoints, revenue)

\* revenuePoints = Math.floor(Math.min(revenue / 1000000, 1) * 25).
RevenuePoints(revenue) ==
  IF revenue >= RevenueCap
  THEN Floor(RevenueCap * RevenueMaxPoints, RevenueCap)
  ELSE Floor(revenue * RevenueMaxPoints, RevenueCap)

\* RevenueStep testing revenuePoints >= 0: a reason even for 0 points.
RevenueStepNonNegative(company, acc) ==
  IF RevenuePoints(company.revenue) >= 0
  THEN [score |-> acc.score + RevenuePoints(company.revenue),
        reasons |-> Append(acc.reasons, RevenueReason(company.revenue))]
  ELSE acc

\* score and reasons after the revenue step.
RevenueStep(company, acc) ==
  IF RevenuePoints(company.revenue) > 0
  THEN [score |-> acc.score + RevenuePoints(company.revenue),
        reasons |-> Append(acc.reasons, RevenueReason(company.revenue))]
  ELSE acc

\* Clamp with the limit off by one.
ClampOffByOne(score) == Min(score, ScoreMax - 1)

\* score = Math.min(score, 100).
Clamp(score) == Min(score, ScoreMax)

\* The local variables of the score handler when it builds its result:
\* the running score after each step, the clamped score and the reasons.
ComputeScore(company, docCount) ==
  LET start == [score |-> 0, reasons |-> <<>>]
      kyc == KycStep(company, start)
      fin == FinancialsStep(company, kyc)
      doc == DocumentsStep(docCount, fin)
      rev == RevenueStep(company, doc)
  IN  [afterKyc |-> kyc.score,
       afterFinancials |-> fin.score,
       afterDocuments |-> doc.score,
       afterRevenue |-> rev.score,
       score |-> Clamp(rev.score),
       reasons |-> rev.reasons]

\* The schema with score: z.number().positive().max(100): 0 is rejected.
InvestabilityScoreSchemaPositive(score) == score > 0 /\ score <= ScoreMax

\* InvestabilityScoreSchema.parse accepts the result.
InvestabilityScoreSchemaOk(score) == score >= 0 /\ score <= ScoreMax

\* The company snapshot the score handler works on.
Snapshot(company, docCount) ==
  [kycVerified |-> company.kycVerified,
   financialsLinked |-> company.financialsLinked,
   documentCount |-> docCount,
   revenue |-> company.revenue]

NoSnapshot ==
  [kycVerified |-> FALSE, financialsLinked |-> FALSE, documentCount |-> 0 - 1,
   revenue |-> 0 - 1]

NoLocals ==
  [afterKyc |-> 0, afterFinancials |-> 0, afterDocuments |-> 0, afterRevenue |-> 0,
   score |-> 0, reasons |-> <<>>]

NoData == [score |-> 0 - 1, reasons |-> <<>>]

\* A reply: route, HTTP status and message.  The reply of the score route
\* also carries the data sent and, for the properties below, the company
\* snapshot the handler scored and the handler's locals.
Reply(route, status, message) ==
  [route |-> route, status |-> status, message |-> message,
   data |-> NoData, snapshot |-> NoSnapshot, locals |-> NoLocals]

(***************************************************************************)
(* Errors: AppError, the catch blocks of the handlers and the global       *)
(* error handler.                                                          *)
(***************************************************************************)
\* new AppError(statusCode, message).
AppError(statusCode, message) ==
  [isAppError |-> TRUE, statusCode |-> statusCode, message |-> message]

\* An error that is not an AppError: a ZodError thrown by a schema.
ZodError == [isAppError |-> FALSE, statusCode |-> 0, message |-> "ZodError"]

\* A catch block that swallows the AppError as well.
CatchWrapsAll(error, statusCode, message) == AppError(statusCode, message)

\* catch (error) { if (error instanceof AppError) throw error;
\*                 throw new AppError(statusCode, message) }
CatchRethrow(error, statusCode, message) ==
  IF error.isAppError THEN error ELSE AppError(statusCode, message)

\* fastify.setErrorHandler: the reply to a thrown error.
ErrorHandler(route, error) ==
  IF error.isAppError
  THEN Reply(route, error.statusCode, error.message)
  ELSE Reply(route, 500, "Internal server error")

(***************************************************************************)
(* Session cookies and the user a request acts for.                        *)
(***************************************************************************)
\* No session cookie.
NoCookie == [present |-> FALSE, valid |-> FALSE, value |-> 0]

\* The cookie reply.setCookie('session', String(user.id), {signed: true}) sets.
SignedCookie(userId) == [present |-> TRUE, valid |-> TRUE, value |-> userId]

\* A session cookie naming a user, with a signature the server did not make.
ForgedCookie(userId) == [present |-> TRUE, valid |-> FALSE, value |-> userId]

\* unsignCookie that trusts the value whatever the signature.
UnsignCookieUnchecked(cookie) == [valid |-> TRUE, value |-> cookie.value]

\* fastify.unsignCookie(session): value is null (0 here) when the signature
\* is not valid.
UnsignCookie(cookie) ==
  IF cookie.valid
  THEN [valid |-> TRUE, value |-> cookie.value]
  ELSE [valid |-> FALSE, value |-> 0]

\* A data route that takes the user from the session cookie.
RequestUserIdFromSession(cookie) == UnsignCookie(cookie).value

\* const userId = 1: the user a data route acts for, whatever the request.
RequestUserId(cookie) == DemoUserId

\* The email of the user POST /api/company creates.
DemoEmail == "demo@investify.com"

\* Bodies POST /api/auth/login may carry; the last is not an email.
LoginEmails ==
  {"demo@investify.com", "Founder@Example.com", "founder@example.com", "not-an-email"}

\* LoginSchema: z.string().email().
LoginSchemaOk(email) == email # "not-an-email"

\* body.email.toLowerCase().
ToLowerCase(email) ==
  IF email = "Founder@Example.com" THEN "founder@example.com" ELSE email

\* The id autoincrement gives the next user row.
NextUserId ==
  IF users = {} THEN 1
  ELSE (CHOOSE u \in users : \A v \in users : v.id <= u.id).id + 1

\* An id no user row has: the cookie of a user that is not in the table.
UnknownUserId == Cardinality(LoginEmails)

\* prisma.user.upsert({ where: { id }, update: {}, create: { id, email } }).
UpsertUserById(userId, email) ==
  IF \E u \in users : u.id = userId
  THEN users
  ELSE users \cup {[id |-> userId, email |-> email]}

(***************************************************************************)
(* The onboarding wizard and the score requests in flight.                 *)
(***************************************************************************)
\* useState initial values of OnboardingPage; `call` is the backend call the
\* running handler awaits and `reply` the status the call was answered with.
WizardInit ==
  [currentStep |-> 1, isLoading |-> FALSE,
   companyData |-> [name |-> "", sector |-> "", targetRaise |-> 0, revenue |-> 0],
   formTouched |-> FALSE, kycVerified |-> FALSE, financialsLinked |-> FALSE,
   alert |-> "", page |-> "/onboarding", calls |-> <<>>]

\* Number of score requests that may be in flight together.
MaxRequests == 2

Requests == 1..MaxRequests

\* A request slot with no request in it.
IdleRequest == [pc |-> "idle", reply |-> Reply("none", 0, "")]

(***************************************************************************)
(* Initial state: an empty database, no request served yet.                *)
(***************************************************************************)
Init ==
  /\ users = {}
  /\ companies = <<>>
  /\ documents = {}
  /\ nextDocumentId = 1
  /\ notifications = EmptyBag
  /\ response = Reply("none", 0, "")
  /\ messages = <<>>
  /\ session = NoCookie
  /\ wizard = WizardInit
  /\ requests = [r \in Requests |-> IdleRequest]

(***************************************************************************)
(* POST /api/company                                                       *)
(***************************************************************************)
\* The handler with an update that replaces the company's relations: its
\* documents are gone afterwards.
CompanyPostDropsDocuments(cookie, revenue) ==
  IF revenue < 0
  THEN /\ response' = Reply("POST /api/company", 400, "Invalid company data")
       /\ UNCHANGED <<users, companies, documents, nextDocumentId, notifications>>
  ELSE LET userId == RequestUserId(cookie)
           existing == FindFirstCompany(userId) IN
       /\ users' = UpsertUserById(userId, DemoEmail)
       /\ IF existing # 0
          THEN /\ companies' = [companies EXCEPT ![existing].revenue = revenue]
               /\ documents' = documents \ DocumentsOf(existing)
               /\ response' = Reply("POST /api/company", 200, "Company updated successfully")
          ELSE /\ companies' = Append(companies,
                                 [userId |-> userId, revenue |-> revenue,
                                  kycVerified |-> FALSE, financialsLinked |-> FALSE])
               /\ documents' = documents
               /\ response' = Reply("POST /api/company", 200, "Company created successfully")
       /\ UNCHANGED <<nextDocumentId, notifications>>

\* The handler with an update that writes the whole row anew.
CompanyPostResetsFlags(cookie, revenue) ==
  IF revenue < 0
  THEN /\ response' = Reply("POST /api/company", 400, "Invalid company data")
       /\ UNCHANGED <<users, companies, documents, nextDocumentId, notifications>>
  ELSE LET userId == RequestUserId(cookie)
           existing == FindFirstCompany(userId) IN
       /\ users' = UpsertUserById(userId, DemoEmail)
       /\ companies' =
            IF existing # 0
            THEN [companies EXCEPT ![existing] =
                    [userId |-> userId, revenue |-> revenue,
                     kycVerified |-> FALSE, financialsLinked |-> FALSE]]
            ELSE Append(companies,
                        [userId |-> userId, revenue |-> revenue,
                         kycVerified |-> FALSE, financialsLinked |-> FALSE])
       /\ response' = Reply("POST /api/company", 200,
                            IF existing # 0 THEN "Company updated successfully"
                            ELSE "Company created successfully")
       /\ UNCHANGED <<documents, nextDocumentId, notifications>>

CompanyPost(cookie, revenue) ==
  IF revenue < 0
  THEN \* CreateCompanySchema.parse throws; every error is answered 400
       /\ response' = Reply("POST /api/company", 400, "Invalid company data")
       /\ UNCHANGED <<users, companies, documents, nextDocumentId, notifications>>
  ELSE LET userId == RequestUserId(cookie)
           existing == FindFirstCompany(userId) IN
       /\ users' = UpsertUserById(userId, DemoEmail)
       /\ IF existing # 0
          THEN /\ companies' = [companies EXCEPT ![existing].revenue = revenue]
               /\ response' = Reply("POST /api/company", 200, "Company updated successfully")
          ELSE /\ companies' = Append(companies,
                                 [userId |-> userId, revenue |-> revenue,
                                  kycVerified |-> FALSE, financialsLinked |-> FALSE])
               /\ response' = Reply("POST /api/company", 200, "Company created successfully")
       /\ UNCHANGED <<documents, nextDocumentId, notifications>>

(***************************************************************************)
(* POST /api/kyc/verify                                                    *)
(***************************************************************************)
KycVerify(cookie) ==
  LET userId == RequestUserId(cookie)
      company == FindFirstCompany(userId) IN
  IF company = 0
  THEN /\ response' = Reply("POST /api/kyc/verify", 404, "Company not found")
       /\ UNCHANGED <<users, companies, documents, nextDocumentId, notifications>>
  ELSE /\ NotificationCount("kyc_completed") < MaxVerifications
       /\ companies' = [companies EXCEPT ![company].kycVerified = TRUE]
       /\ notifications' = CreateNotification(userId, "kyc_completed")
       /\ response' = Reply("POST /api/kyc/verify", 200, "KYC verification completed")
       /\ UNCHANGED <<users, documents, nextDocumentId>>

(***************************************************************************)
(* POST /api/financials/link                                               *)
(***************************************************************************)
\* The handler answering 200 without the update of the company.
FinancialsLinkWithoutUpdate(cookie, tokenOk) ==
  LET userId == RequestUserId(cookie)
      company == FindFirstCompany(userId) IN
  IF ~tokenOk
  THEN /\ response' = Reply("POST /api/financials/link", 500, "Financials linking failed")
       /\ UNCHANGED <<users, companies, documents, nextDocumentId, notifications>>
  ELSE IF company = 0
  THEN /\ response' = Reply("POST /api/financials/link", 404, "Company not found")
       /\ UNCHANGED <<users, companies, documents, nextDocumentId, notifications>>
  ELSE /\ NotificationCount("financials_linked") < MaxVerifications
       /\ notifications' = CreateNotification(userId, "financials_linked")
       /\ response' = Reply("POST /api/financials/link", 200, "Financials linked successfully")
       /\ UNCHANGED <<users, companies, documents, nextDocumentId>>

FinancialsLink(cookie, tokenOk) ==
  LET userId == RequestUserId(cookie)
      company == FindFirstCompany(userId) IN
  IF ~tokenOk
  THEN \* FinancialsLinkSchema.parse throws a non-AppError: 500
       /\ response' = Reply("POST /api/financials/link", 500, "Financials linking failed")
       /\ UNCHANGED <<users, companies, documents, nextDocumentId, notifications>>
  ELSE IF company = 0
  THEN /\ response' = Reply("POST /api/financials/link", 404, "Company not found")
       /\ UNCHANGED <<users, companies, documents, nextDocumentId, notifications>>
  ELSE /\ NotificationCount("financials_linked") < MaxVerifications
       /\ companies' = [companies EXCEPT ![company].financialsLinked = TRUE]
       /\ notifications' = CreateNotification(userId, "financials_linked")
       /\ response' = Reply("POST /api/financials/link", 200, "Financials linked successfully")
       /\ UNCHANGED <<users, documents, nextDocumentId>>

(***************************************************************************)
(* POST /api/files                                                         *)
(***************************************************************************)
\* The MIME type check with the test inverted.
MimeTypeAllowedInverted(mimetype) == mimetype \notin AllowedTypes

\* allowedTypes.includes(data.mimetype).
MimeTypeAllowed(mimetype) == mimetype \in AllowedTypes

FileUpload(cookie, hasFile, mimetype, bytesRead) ==
  LET userId == RequestUserId(cookie)
      company == FindFirstCompany(userId) IN
  IF company = 0
  THEN /\ response' = Reply("POST /api/files", 404, "Company not found")
       /\ UNCHANGED <<users, companies, documents, nextDocumentId, notifications>>
  ELSE IF ~hasFile
  THEN /\ response' = Reply("POST /api/files", 400, "No file uploaded")
       /\ UNCHANGED <<users, companies, documents, nextDocumentId, notifications>>
  ELSE IF ~MimeTypeAllowed(mimetype)
  THEN /\ response' = Reply("POST /api/files", 400,
                        "Invalid file type. Only PDF, XLSX, and PPTX files are allowed")
       /\ UNCHANGED <<users, companies, documents, nextDocumentId, notifications>>
  ELSE IF bytesRead > MaxFileSize
  THEN /\ response' = Reply("POST /api/files", 400,
                        "File size too large. Maximum size is 5MB")
       /\ UNCHANGED <<users, companies, documents, nextDocumentId, notifications>>
  ELSE /\ nextDocumentId <= MaxDocumentId
       /\ documents' = documents \cup
            {[id |-> nextDocumentId, companyId |-> company, mimeType |-> mimetype]}
       /\ nextDocumentId' = nextDocumentId + 1
       /\ notifications' = CreateNotification(userId, "file_uploaded")
       /\ response' = Reply("POST /api/files", 200, "File uploaded successfully")
       /\ UNCHANGED <<users, companies>>

(***************************************************************************)
(* DELETE /api/files/:id                                                   *)
(***************************************************************************)
\* The characters of the text of an id in a request path, and the digits
\* among them with their values.
DigitChars == <<"0", "1", "2", "3", "4", "5", "6", "7", "8", "9">>

IsDigit(char) == \E n \in 1..Len(DigitChars) : DigitChars[n] = char

DigitValue(char) == (CHOOSE n \in 1..Len(DigitChars) : DigitChars[n] = char) - 1

\* The text of the id n, for an id of one digit.
Numeral(n) == <<DigitChars[n + 1]>>

\* NaN, which no id equals.
NaN == 0 - 1

RECURSIVE DecimalValue(_)
\* The number a text of digits denotes.
DecimalValue(text) ==
  IF text = <<>> THEN 0
  ELSE 10 * DecimalValue(SubSeq(text, 1, Len(text) - 1)) + DigitValue(text[Len(text)])

\* parseInt(id): the number of the longest run of digits the text starts
\* with, whatever follows it; NaN when it starts with no digit.
ParseInt(text) ==
  LET digits == {n \in 0..Len(text) : \A i \in 1..n : IsDigit(text[i])}
      longest == CHOOSE n \in digits : \A m \in digits : m <= n
  IN  IF longest = 0 THEN NaN ELSE DecimalValue(SubSeq(text, 1, longest))

\* `unlinkOk`: fs.unlink(document.path) succeeds; its failure is caught and
\* ignored.
FileDelete(cookie, id, unlinkOk) ==
  LET documentId == ParseInt(id)
      userId == RequestUserId(cookie)
      company == FindFirstCompany(userId)
      catch(error) == ErrorHandler("DELETE /api/files/:id",
                                   CatchRethrow(error, 500, "File deletion failed"))
  IN
  IF documentId = NaN
  THEN /\ response' = catch(AppError(400, "Invalid file ID"))
       /\ UNCHANGED <<users, companies, documents, nextDocumentId, notifications>>
  ELSE IF company = 0
  THEN /\ response' = catch(AppError(404, "Company not found"))
       /\ UNCHANGED <<users, companies, documents, nextDocumentId, notifications>>
  ELSE IF ~\E d \in documents : d.id = documentId /\ d.companyId = company
  THEN /\ response' = catch(AppError(404, "File not found"))
       /\ UNCHANGED <<users, companies, documents, nextDocumentId, notifications>>
  ELSE /\ documents' = {d \in documents : d.id # documentId}
       /\ response' = Reply("DELETE /api/files/:id", 200, "File deleted successfully")
       /\ UNCHANGED <<users, companies, nextDocumentId, notifications>>

(***************************************************************************)
(* GET /api/score                                                          *)
(***************************************************************************)
\* The reply of the score handler to a request carrying `cookie`.
ScoreReply(cookie) ==
  LET userId == RequestUserId(cookie)
      company == FindFirstCompany(userId) IN
  IF company = 0
  THEN ErrorHandler("GET /api/score",
                    CatchRethrow(AppError(404, "Company not found"),
                                 500, "Failed to calculate score"))
  ELSE LET docCount == Cardinality(DocumentsOf(company))
           locals == ComputeScore(companies[company], docCount)
       IN  IF InvestabilityScoreSchemaOk(locals.score)
           THEN [route |-> "GET /api/score", status |-> 200, message |-> "",
                 data |-> [score |-> locals.score, reasons |-> locals.reasons],
                 snapshot |-> Snapshot(companies[company], docCount),
                 locals |-> locals]
           ELSE [ErrorHandler("GET /api/score",
                              CatchRethrow(ZodError, 500, "Failed to calculate score"))
                   EXCEPT !.snapshot = Snapshot(companies[company], docCount),
                          !.locals = locals]

\* GetScore that also records a notification, as the writing routes do.
GetScoreNotifies(cookie) ==
  /\ response' = ScoreReply(cookie)
  /\ notifications' = CreateNotification(RequestUserId(cookie), "score_viewed")
  /\ UNCHANGED <<users, companies, documents, nextDocumentId>>

GetScore(cookie) ==
  /\ response' = ScoreReply(cookie)
  /\ UNCHANGED <<users, companies, documents, nextDocumentId, notifications>>

(***************************************************************************)
(* GET /api/score/breakdown                                                *)
(***************************************************************************)
\* The points of the breakdown are not whole numbers: they are kept as
\* whole multiples of one millionth of a point.
PointUnits == RevenueCap

\* 8.33 points, in point units.
PointsPerDocument == 8330000

\* The breakdown using the floor rule of the score route for the documents.
BreakdownDocumentPointsFloor(docCount) ==
  IF docCount >= DocumentsRequired
  THEN DocumentsMaxPoints * PointUnits
  ELSE Floor(docCount * DocumentsMaxPoints, DocumentsRequired) * PointUnits

\* Math.min(company.documents.length, 3) * 8.33
BreakdownDocumentPoints(docCount) == Min(docCount, DocumentsRequired) * PointsPerDocument

\* Math.min(company.revenue / 1000000, 1) * 25
BreakdownRevenuePoints(revenue) ==
  IF revenue >= RevenueCap
  THEN RevenueMaxPoints * PointUnits
  ELSE revenue * RevenueMaxPoints

\* The breakdown object of a company with docCount documents.
Breakdown(company, docCount) ==
  [kycVerified |->
     [status |-> company.kycVerified,
      points |-> IF company.kycVerified THEN KycMaxPoints * PointUnits ELSE 0,
      maxPoints |-> KycMaxPoints],
   financialsLinked |->
     [status |-> company.financialsLinked,
      points |-> IF company.financialsLinked THEN FinancialsMaxPoints * PointUnits ELSE 0,
      maxPoints |-> FinancialsMaxPoints],
   documents |->
     [status |-> docCount >= DocumentsRequired,
      points |-> BreakdownDocumentPoints(docCount),
      maxPoints |-> DocumentsMaxPoints,
      current |-> docCount,
      required |-> DocumentsRequired],
   revenue |->
     [status |-> company.revenue > 0,
      points |-> BreakdownRevenuePoints(company.revenue),
      maxPoints |-> RevenueMaxPoints,
      current |-> company.revenue,
      max |-> RevenueCap]]

\* The reply of the breakdown handler to a request carrying `cookie`.
BreakdownReply(cookie) ==
  LET userId == RequestUserId(cookie)
      company == FindFirstCompany(userId) IN
  IF company = 0
  THEN ErrorHandler("GET /api/score/breakdown",
                    CatchRethrow(AppError(404, "Company not found"),
                                 500, "Failed to fetch score breakdown"))
  ELSE LET docCount == Cardinality(DocumentsOf(company))
       IN  [route |-> "GET /api/score/breakdown", status |-> 200, message |-> "",
            data |-> Breakdown(companies[company], docCount),
            snapshot |-> Snapshot(companies[company], docCount),
            locals |-> NoLocals]

GetBreakdown(cookie) ==
  /\ response' = BreakdownReply(cookie)
  /\ UNCHANGED <<users, companies, documents, nextDocumentId, notifications>>

(***************************************************************************)
(* POST /api/auth/login, GET /api/auth/me, POST /api/auth/logout           *)
(***************************************************************************)
Login(email) ==
  IF ~LoginSchemaOk(email)
  THEN /\ response' = ErrorHandler("POST /api/auth/login",
                        CatchRethrow(ZodError, 400, "Invalid login request"))
       /\ UNCHANGED <<users, session>>
  ELSE LET lower == ToLowerCase(email)
           user == IF \E u \in users : u.email = lower
                   THEN CHOOSE u \in users : u.email = lower
                   ELSE [id |-> NextUserId, email |-> lower]
       IN  /\ users' = users \cup {user}
           /\ session' = SignedCookie(user.id)
           /\ response' = [Reply("POST /api/auth/login", 200, "Logged in")
                             EXCEPT !.data = [userId |-> user.id, email |-> user.email]]

Me(cookie) ==
  LET unsign == UnsignCookie(cookie)
      userId == IF unsign.valid /\ unsign.value # 0 THEN unsign.value ELSE 0
      catch(error) == ErrorHandler("GET /api/auth/me",
                                   CatchRethrow(error, 401, "Not authenticated"))
  IN  /\ IF ~cookie.present
         THEN response' = catch(AppError(401, "Not authenticated"))
         ELSE IF userId = 0
         THEN response' = catch(AppError(401, "Invalid session"))
         ELSE IF ~\E u \in users : u.id = userId
         THEN response' = catch(AppError(401, "User not found"))
         ELSE LET user == CHOOSE u \in users : u.id = userId
              IN  response' = [Reply("GET /api/auth/me", 200, "")
                                 EXCEPT !.data = [id |-> user.id, email |-> user.email]]
      /\ UNCHANGED <<users, session>>

Logout ==
  /\ session' = NoCookie
  /\ response' = Reply("POST /api/auth/logout", 200, "Logged out")
  /\ UNCHANGED users

(***************************************************************************)
(* The read routes of company, KYC, financials and files.                  *)
(***************************************************************************)
\* The rows of the message table of a company, oldest first.
MessagesOf(companyId) == SelectSeq(messages, LAMBDA m : m.companyId = companyId)

RECURSIVE IdsDescending(_)
\* orderBy: { createdAt: 'desc' }: the ids of a set of rows, newest first.
IdsDescending(rows) ==
  IF rows = {} THEN <<>>
  ELSE LET newest == CHOOSE d \in rows : \A e \in rows : e.id <= d.id
       IN  <<newest.id>> \o IdsDescending(rows \ {newest})

\* The reply of a read route: 404 when the user has no company, else 200
\* with the data of the company row, which `data` gives for every row.
ReadReply(route, cookie, failMessage, data) ==
  LET userId == RequestUserId(cookie)
      company == FindFirstCompany(userId) IN
  IF company = 0
  THEN ErrorHandler(route, CatchRethrow(AppError(404, "Company not found"), 500, failMessage))
  ELSE [Reply(route, 200, "") EXCEPT !.data = data[company]]

CompanyGet(cookie) ==
  /\ response' = ReadReply("GET /api/company", cookie, "Failed to fetch company",
                   [c \in DOMAIN companies |->
                      [company |-> companies[c], documents |-> DocumentsOf(c),
                       messages |-> MessagesOf(c)]])
  /\ UNCHANGED <<store, messages>>

KycStatus(cookie) ==
  /\ response' = ReadReply("GET /api/kyc/status", cookie, "Failed to fetch KYC status",
                   [c \in DOMAIN companies |-> [verified |-> companies[c].kycVerified]])
  /\ UNCHANGED <<store, messages>>

FinancialsStatus(cookie) ==
  /\ response' = ReadReply("GET /api/financials/status", cookie,
                   "Failed to fetch financials status",
                   [c \in DOMAIN companies |->
                      [financials_linked |-> companies[c].financialsLinked]])
  /\ UNCHANGED <<store, messages>>

FilesGet(cookie) ==
  /\ response' = ReadReply("GET /api/files", cookie, "Failed to fetch files",
                   [c \in DOMAIN companies |-> IdsDescending(DocumentsOf(c))])
  /\ UNCHANGED <<store, messages>>

(***************************************************************************)
(* The notification routes.                                                *)
(***************************************************************************)
\* The rows of the notification table of a user.
NotificationsOf(userId) ==
  [n \in {m \in DOMAIN notifications : m.userId = userId} |-> notifications[n]]

\* where: { userId, readAt: null }
UnreadOf(userId) ==
  [n \in {m \in DOMAIN notifications : m.userId = userId /\ m.readAt = "null"}
     |-> notifications[n]]

\* A row with readAt set to new Date().
AsRead(row, now) == [row EXCEPT !.readAt = now]

\* prisma.notification.update of one row: data: { readAt: new Date() }.
MarkRead(row, now) == (notifications (-) SetToBag({row})) (+) SetToBag({AsRead(row, now)})

\* updateMany without readAt: null in its where: every row of the user gets
\* the new date.
MarkAllReadUnfiltered(userId, now) ==
  LET Target(n) == IF n.userId = userId THEN AsRead(n, now) ELSE n
      rows == DOMAIN notifications
  IN  [m \in {Target(n) : n \in rows} |->
         BagCardinality([n \in {k \in rows : Target(k) = m} |-> notifications[n]])]

\* prisma.notification.updateMany({ where: { userId, readAt: null }, ... }).
MarkAllRead(userId, now) ==
  LET Target(n) == IF n.userId = userId /\ n.readAt = "null" THEN AsRead(n, now) ELSE n
      Count(n) == IF n \in DOMAIN notifications THEN notifications[n] ELSE 0
      Unread(m) == [m EXCEPT !.readAt = "null"]
  IN  [m \in {Target(n) : n \in DOMAIN notifications} |->
         Count(m) + (IF m.userId = userId /\ m.readAt = now THEN Count(Unread(m)) ELSE 0)]

NotificationsGet(cookie) ==
  /\ response' = [Reply("GET /api/notifications", 200, "")
                    EXCEPT !.data = NotificationsOf(RequestUserId(cookie))]
  /\ UNCHANGED <<store, messages>>

\* The rows a notification id of a request may name.
NotificationRows ==
  {[Notification(DemoUserId, type) EXCEPT !.readAt = readAt] :
     type \in {"kyc_completed", "financials_linked", "file_uploaded"},
     readAt \in {"null"} \cup Dates}

\* PATCH /api/notifications/:id/read.  The id is not a number, or it is the
\* id of the row `row`, which the table holds or not.
NotificationRead(cookie, idIsNumber, row, now) ==
  LET userId == RequestUserId(cookie)
      catch(error) == ErrorHandler("PATCH /api/notifications/:id/read",
                        CatchRethrow(error, 500, "Failed to mark notification as read"))
  IN  IF ~idIsNumber
      THEN /\ response' = catch(AppError(400, "Invalid notification ID"))
           /\ UNCHANGED <<store, messages>>
      ELSE IF row \notin DOMAIN NotificationsOf(userId)
      THEN /\ response' = catch(AppError(404, "Notification not found"))
           /\ UNCHANGED <<store, messages>>
      ELSE /\ notifications' = MarkRead(row, now)
           /\ response' = Reply("PATCH /api/notifications/:id/read", 200,
                                "Notification marked as read")
           /\ UNCHANGED <<users, companies, documents, nextDocumentId, messages>>

NotificationsReadAll(cookie, now) ==
  /\ notifications' = MarkAllRead(RequestUserId(cookie), now)
  /\ response' = Reply("PATCH /api/notifications/read-all", 200,
                       "All notifications marked as read")
  /\ UNCHANGED <<users, companies, documents, nextDocumentId, messages>>

NotificationsUnreadCount(cookie) ==
  /\ response' = [Reply("GET /api/notifications/unread-count", 200, "")
                    EXCEPT !.data = [count |-> BagCardinality(UnreadOf(RequestUserId(cookie)))]]
  /\ UNCHANGED <<store, messages>>

(***************************************************************************)
(* The message routes.                                                     *)
(***************************************************************************)
\* Highest number of rows of the message table.
MaxMessages == 1

\* Values the sender and the text of a message body may have.
MessageFields == {"", "hello"}

MessagesGet(cookie) ==
  /\ response' = ReadReply("GET /api/messages", cookie, "Failed to fetch messages",
                   [c \in DOMAIN companies |-> MessagesOf(c)])
  /\ UNCHANGED <<store, messages>>

MessagePost(cookie, sender, text) ==
  LET userId == RequestUserId(cookie)
      company == FindFirstCompany(userId)
      catch(error) == ErrorHandler("POST /api/messages",
                        CatchRethrow(error, 500, "Failed to send message"))
  IN  IF sender = "" \/ text = ""
      THEN /\ response' = catch(AppError(400, "Sender and text are required"))
           /\ UNCHANGED <<store, messages>>
      ELSE IF company = 0
      THEN /\ response' = catch(AppError(404, "Company not found"))
           /\ UNCHANGED <<store, messages>>
      ELSE /\ Len(messages) < MaxMessages
           /\ messages' = Append(messages,
                            [companyId |-> company, sender |-> sender, text |-> text])
           /\ response' = [Reply("POST /api/messages", 200, "Message sent successfully")
                             EXCEPT !.data = [companyId |-> company, sender |-> sender,
                                              text |-> text]]
           /\ UNCHANGED store

(***************************************************************************)
(* The backend on its own: every data route, one request at a time, sent   *)
(* by a client without a session.                                          *)
(***************************************************************************)
\* What a request to a data route leaves alone: the browser.
ClientFrame == UNCHANGED <<session, wizard, requests>>

\* The same for a route that does not use the message table.
RouteFrame == UNCHANGED <<messages, session, wizard, requests>>

Next ==
  \/ \E revenue \in RevenueValues \cup {NegativeRevenue} :
       CompanyPost(session, revenue) /\ RouteFrame
  \/ KycVerify(session) /\ RouteFrame
  \/ \E tokenOk \in BOOLEAN : FinancialsLink(session, tokenOk) /\ RouteFrame
  \/ \E hasFile \in BOOLEAN, mimetype \in MimeTypes, bytesRead \in BytesReadValues :
       FileUpload(session, hasFile, mimetype, bytesRead) /\ RouteFrame
  \/ \E documentId \in 1..MaxDocumentId :
       FileDelete(session, Numeral(documentId), TRUE) /\ RouteFrame
  \/ GetScore(session) /\ RouteFrame
  \/ GetBreakdown(session) /\ RouteFrame

Spec == Init /\ [][Next]_vars

(***************************************************************************)
(* The backend with its session routes: every route of index.ts, called    *)
(* with the cookie the browser holds, which login sets and logout clears.  *)
(***************************************************************************)
\* Revenues of the company form in the runs with sessions.
SessionRevenueValues == {RevenueCap, NegativeRevenue}

\* The value of new Date() in the runs with sessions.
SessionDate == "date"

\* Highest document id in the runs with sessions.
MaxSessionDocumentId == 1

\* Highest number of KYC verifications, and of financials links, in the runs
\* with sessions.
MaxSessionVerifications == 1

\* The cookies a request may carry.
Cookies ==
  {NoCookie, ForgedCookie(DemoUserId), SignedCookie(DemoUserId), SignedCookie(DemoUserId + 1)}

\* The data routes index.ts registers.
DataRoutes ==
  {"POST /api/company", "GET /api/company", "POST /api/kyc/verify", "GET /api/kyc/status",
   "POST /api/financials/link", "GET /api/financials/status", "POST /api/files",
   "GET /api/files", "DELETE /api/files/:id", "GET /api/score", "GET /api/score/breakdown",
   "GET /api/notifications", "PATCH /api/notifications/:id/read",
   "PATCH /api/notifications/read-all", "GET /api/notifications/unread-count",
   "GET /api/messages", "POST /api/messages"}

\* One request to the data route `route`, carrying the cookie `cookie`.
Request(route, cookie) ==
  CASE route = "POST /api/company" ->
         \E revenue \in SessionRevenueValues : CompanyPost(cookie, revenue) /\ RouteFrame
    [] route = "GET /api/company" -> CompanyGet(cookie) /\ ClientFrame
    [] route = "POST /api/kyc/verify" ->
         /\ NotificationCount("kyc_completed") < MaxSessionVerifications
         /\ KycVerify(cookie) /\ RouteFrame
    [] route = "GET /api/kyc/status" -> KycStatus(cookie) /\ ClientFrame
    [] route = "POST /api/financials/link" ->
         /\ NotificationCount("financials_linked") < MaxSessionVerifications
         /\ \E tokenOk \in BOOLEAN : FinancialsLink(cookie, tokenOk) /\ RouteFrame
    [] route = "GET /api/financials/status" -> FinancialsStatus(cookie) /\ ClientFrame
    [] route = "POST /api/files" ->
         /\ nextDocumentId <= MaxSessionDocumentId
         /\ \E hasFile \in BOOLEAN, mimetype \in MimeTypes, bytesRead \in BytesReadValues :
              FileUpload(cookie, hasFile, mimetype, bytesRead) /\ RouteFrame
    [] route = "GET /api/files" -> FilesGet(cookie) /\ ClientFrame
    [] route = "DELETE /api/files/:id" ->
         \E documentId \in 1..MaxSessionDocumentId :
           FileDelete(cookie, Numeral(documentId), TRUE) /\ RouteFrame
    [] route = "GET /api/score" -> GetScore(cookie) /\ RouteFrame
    [] route = "GET /api/score/breakdown" -> GetBreakdown(cookie) /\ RouteFrame
    [] route = "GET /api/notifications" -> NotificationsGet(cookie) /\ ClientFrame
    [] route = "PATCH /api/notifications/:id/read" ->
         \E idIsNumber \in BOOLEAN, row \in NotificationRows :
           NotificationRead(cookie, idIsNumber, row, SessionDate) /\ ClientFrame
    [] route = "PATCH /api/notifications/read-all" ->
         NotificationsReadAll(cookie, SessionDate) /\ ClientFrame
    [] route = "GET /api/notifications/unread-count" ->
         NotificationsUnreadCount(cookie) /\ ClientFrame
    [] route = "GET /api/messages" -> MessagesGet(cookie) /\ ClientFrame
    [] route = "POST /api/messages" ->
         \E sender \in MessageFields, text \in MessageFields :
           MessagePost(cookie, sender, text) /\ ClientFrame

\* The cookies a request to /api/auth/me carries: the browser's, a forged
\* one, and a signed one of a user that does not exist.
MeCookies ==
  {session, ForgedCookie(DemoUserId), SignedCookie(DemoUserId), SignedCookie(UnknownUserId)}

\* What a session route leaves alone.
AuthFrame ==
  UNCHANGED <<companies, documents, nextDocumentId, notifications, messages,
              wizard, requests>>

NextSession ==
  \/ \E route \in DataRoutes : Request(route, session)
  \/ \E email \in LoginEmails : Login(email) /\ AuthFrame
  \/ \E cookie \in MeCookies : Me(cookie) /\ AuthFrame
  \/ Logout /\ AuthFrame

SpecSession == Init /\ [][NextSession]_vars

(***************************************************************************)
(* The notification routes with the routes that create notifications, and  *)
(* the clock moving between two reads.                                     *)
(***************************************************************************)
NextNotifications ==
  \/ CompanyPost(session, RevenueCap) /\ RouteFrame
  \/ KycVerify(session) /\ RouteFrame
  \/ \E tokenOk \in BOOLEAN : FinancialsLink(session, tokenOk) /\ RouteFrame
  \/ /\ nextDocumentId <= MaxSessionDocumentId
     /\ FileUpload(session, TRUE, "application/pdf", 0) /\ RouteFrame
  \/ NotificationsGet(session) /\ ClientFrame
  \/ \E idIsNumber \in BOOLEAN, row \in NotificationRows, now \in Dates :
       NotificationRead(session, idIsNumber, row, now) /\ ClientFrame
  \/ \E now \in Dates : NotificationsReadAll(session, now) /\ ClientFrame
  \/ NotificationsUnreadCount(session) /\ ClientFrame

SpecNotifications == Init /\ [][NextNotifications]_vars

(***************************************************************************)
(* The file routes, with the ids a request path may carry.                 *)
(***************************************************************************)
\* Characters of the id of a request to DELETE /api/files/:id.
FileIdChars == {"1", "2", "3", "a"}

\* The ids: texts of one or two characters.
FileIds ==
  {<<c>> : c \in FileIdChars} \cup {<<c, d>> : c \in FileIdChars, d \in FileIdChars}

NextFiles ==
  \/ \E revenue \in SessionRevenueValues : CompanyPost(session, revenue) /\ RouteFrame
  \/ \E hasFile \in BOOLEAN, mimetype \in MimeTypes, bytesRead \in BytesReadValues :
       FileUpload(session, hasFile, mimetype, bytesRead) /\ RouteFrame
  \/ FilesGet(session) /\ ClientFrame
  \/ \E id \in FileIds, unlinkOk \in BOOLEAN : FileDelete(session, id, unlinkOk) /\ RouteFrame

SpecFiles == Init /\ [][NextFiles]_vars

(***************************************************************************)
(* Score requests in flight.  The handler of GET /api/score runs up to its *)
(* one await, prisma.company.findFirst with its documents; the query reads *)
(* the tables at some later instant, and what follows the await runs       *)
(* without interruption up to the return.  Other requests are served in    *)
(* between.                                                                *)
(***************************************************************************)
\* What a step of a score request leaves alone.
RequestFrame == UNCHANGED <<store, messages, session, wizard>>

\* The handler is called and issues its query.
ScoreBegin(r) ==
  /\ requests[r].pc = "idle"
  /\ requests' = [requests EXCEPT ![r].pc = "awaiting"]
  /\ UNCHANGED response
  /\ RequestFrame

\* A handler that keeps its result in a variable of the module, which every
\* request shares: a request returns what an earlier one computed.
ScoreAwaitShared(r) ==
  /\ requests[r].pc = "awaiting"
  /\ requests' = [requests EXCEPT ![r] =
       [pc |-> "done",
        reply |-> IF \E q \in Requests : requests[q].pc = "done"
                  THEN requests[CHOOSE q \in Requests : requests[q].pc = "done"].reply
                  ELSE ScoreReply(session)]]
  /\ UNCHANGED response
  /\ RequestFrame

\* The query reads the company and its documents, and the handler computes
\* its result from them.
ScoreAwait(r) ==
  /\ requests[r].pc = "awaiting"
  /\ requests' = [requests EXCEPT ![r] = [pc |-> "done", reply |-> ScoreReply(session)]]
  /\ UNCHANGED response
  /\ RequestFrame

\* The reply is sent.
ScoreRespond(r) ==
  /\ requests[r].pc = "done"
  /\ response' = requests[r].reply
  /\ requests' = [requests EXCEPT ![r] = IdleRequest]
  /\ RequestFrame

NextConcurrent ==
  \/ \E r \in Requests : ScoreBegin(r)
  \/ \E r \in Requests : ScoreAwait(r)
  \/ \E r \in Requests : ScoreRespond(r)
  \/ \E revenue \in SessionRevenueValues : CompanyPost(session, revenue) /\ RouteFrame
  \/ /\ NotificationCount("kyc_completed") < MaxSessionVerifications
     /\ KycVerify(session) /\ RouteFrame
  \/ /\ NotificationCount("financials_linked") < MaxSessionVerifications
     /\ \E tokenOk \in BOOLEAN : FinancialsLink(session, tokenOk) /\ RouteFrame
  \/ /\ nextDocumentId <= MaxSessionDocumentId
     /\ \E mimetype \in MimeTypes : FileUpload(session, TRUE, mimetype, 0) /\ RouteFrame
  \/ \E documentId \in 1..MaxSessionDocumentId :
       FileDelete(session, Numeral(documentId), TRUE) /\ RouteFrame

SpecConcurrent == Init /\ [][NextConcurrent]_vars

(***************************************************************************)
(* Requests to POST /api/company in flight.  The handler awaits three      *)
(* queries in turn: the upsert of the user, findFirst of the company, and  *)
(* update or create; other requests are served between them.               *)
(***************************************************************************)
\* What a step of a company request leaves alone.
CompanyFrame == UNCHANGED <<documents, nextDocumentId, notifications, messages, session, wizard>>

\* The handler is called: it validates the body and issues the upsert.
CompanyPostBegin(r, revenue) ==
  /\ requests[r].pc = "idle"
  /\ requests' = [requests EXCEPT ![r] =
       IF revenue < 0
       THEN [pc |-> "done", reply |-> Reply("POST /api/company", 400, "Invalid company data")]
       ELSE [pc |-> "upsert", reply |-> IdleRequest.reply, revenue |-> revenue]]
  /\ UNCHANGED <<users, companies, response>>
  /\ CompanyFrame

\* prisma.user.upsert runs.
CompanyPostUpsert(r) ==
  /\ requests[r].pc = "upsert"
  /\ users' = UpsertUserById(RequestUserId(session), DemoEmail)
  /\ requests' = [requests EXCEPT ![r].pc = "findFirst"]
  /\ UNCHANGED <<companies, response>>
  /\ CompanyFrame

\* prisma.company.findFirst runs: existingCompany is the row found, 0 for null.
CompanyPostFindFirst(r) ==
  /\ requests[r].pc = "findFirst"
  /\ requests' = [requests EXCEPT ![r] =
       [pc |-> "write", reply |-> requests[r].reply, revenue |-> requests[r].revenue,
        existingCompany |-> FindFirstCompany(RequestUserId(session))]]
  /\ UNCHANGED <<users, companies, response>>
  /\ CompanyFrame

\* prisma.company.update or prisma.company.create runs.  `unique`: the
\* company table takes one row per user and refuses a second, which is
\* answered 400 as every error of this route is.
CompanyPostWrite(r, unique) ==
  LET userId == RequestUserId(session)
      existing == requests[r].existingCompany
      revenue == requests[r].revenue
  IN  /\ requests[r].pc = "write"
      /\ IF existing # 0
         THEN /\ companies' = [companies EXCEPT ![existing].revenue = revenue]
              /\ requests' = [requests EXCEPT ![r] =
                   [pc |-> "done",
                    reply |-> Reply("POST /api/company", 200, "Company updated successfully")]]
         ELSE IF unique /\ FindFirstCompany(userId) # 0
         THEN /\ companies' = companies
              /\ requests' = [requests EXCEPT ![r] =
                   [pc |-> "done",
                    reply |-> Reply("POST /api/company", 400, "Invalid company data")]]
         ELSE /\ companies' = Append(companies,
                                [userId |-> userId, revenue |-> revenue,
                                 kycVerified |-> FALSE, financialsLinked |-> FALSE])
              /\ requests' = [requests EXCEPT ![r] =
                   [pc |-> "done",
                    reply |-> Reply("POST /api/company", 200, "Company created successfully")]]
      /\ UNCHANGED <<users, response>>
      /\ CompanyFrame

\* The reply is sent.
CompanyPostRespond(r) ==
  /\ requests[r].pc = "done"
  /\ response' = requests[r].reply
  /\ requests' = [requests EXCEPT ![r] = IdleRequest]
  /\ UNCHANGED <<users, companies>>
  /\ CompanyFrame

NextCompany ==
  \/ \E r \in Requests, revenue \in SessionRevenueValues :
       CompanyPostBegin(r, revenue)
  \/ \E r \in Requests : CompanyPostUpsert(r)
  \/ \E r \in Requests : CompanyPostFindFirst(r)
  \/ \E r \in Requests, unique \in BOOLEAN : CompanyPostWrite(r, unique)
  \/ \E r \in Requests : CompanyPostRespond(r)

SpecCompany == Init /\ [][NextCompany]_vars

(***************************************************************************)
(* The onboarding wizard of the browser, with the backend behind it.  A    *)
(* handler runs up to its await of the API call; the call reaches the      *)
(* backend or fails; the handler resumes with the outcome.                 *)
(***************************************************************************)
\* Values the fields of the company form may be given.
FormNames == {"", "Acme"}
FormSectors == {"", "Fintech"}
FormTargetRaises == {0, RevenueCap}
FormRevenues == {NegativeRevenue, RevenueCap}

\* Highest number of handler calls awaiting their API call.
MaxPendingCalls == 2

\* What the wizard leaves alone but for its own state.
WizardFrame == UNCHANGED <<store, response, messages, session, requests>>

\* The form of step 1 is rendered.
FormRendered == wizard.page = "/onboarding" /\ wizard.currentStep = 1

\* onChange of the name and sector inputs.
SetName(value) ==
  /\ FormRendered
  /\ wizard' = [wizard EXCEPT !.formTouched = TRUE, !.companyData.name = value]
  /\ WizardFrame

SetSector(value) ==
  /\ FormRendered
  /\ wizard' = [wizard EXCEPT !.formTouched = TRUE, !.companyData.sector = value]
  /\ WizardFrame

\* onChange of the target raise and revenue inputs.
SetTargetRaise(value) ==
  /\ FormRendered
  /\ wizard' = [wizard EXCEPT !.companyData.targetRaise = value]
  /\ WizardFrame

SetRevenue(value) ==
  /\ FormRendered
  /\ wizard' = [wizard EXCEPT !.companyData.revenue = value]
  /\ WizardFrame

\* A button that stays enabled while a call is awaited.
ButtonAlwaysEnabled == TRUE

\* disabled={isLoading} of the button of each step.
ButtonEnabled == ~wizard.isLoading

\* The button of step `step` is rendered and enabled.
CanPress(step) ==
  /\ wizard.page = "/onboarding"
  /\ wizard.currentStep = step
  /\ ButtonEnabled
  /\ Len(wizard.calls) < MaxPendingCalls

\* A handler sets isLoading and awaits its API call.
Await(handler) ==
  [wizard EXCEPT !.isLoading = TRUE,
                 !.calls = Append(@, [handler |-> handler,
                                      revenue |-> wizard.companyData.revenue,
                                      status |-> "sent"])]

HandleCompanySubmit ==
  /\ CanPress(1)
  /\ wizard' =
       IF ~wizard.formTouched
       THEN [wizard EXCEPT !.alert = "Please fill in the form before submitting."]
       ELSE IF \/ wizard.companyData.name = ""
               \/ wizard.companyData.sector = ""
               \/ wizard.companyData.targetRaise <= 0
               \/ wizard.companyData.revenue < 0
       THEN [wizard EXCEPT !.alert = "Please fill in all required fields with valid values."]
       ELSE Await("handleCompanySubmit")
  /\ WizardFrame

HandleKYCVerification ==
  /\ CanPress(2)
  /\ wizard' = Await("handleKYCVerification")
  /\ WizardFrame

HandleFinancialsLink ==
  /\ CanPress(3)
  /\ wizard' = Await("handleFinancialsLink")
  /\ WizardFrame

CompleteOnboarding ==
  /\ wizard.page = "/onboarding"
  /\ wizard.currentStep = 4
  /\ wizard' = [wizard EXCEPT !.page = "/dashboard"]
  /\ WizardFrame

\* apiRequest of the i-th awaited call: the backend serves the request, and
\* the promise resolves when the reply is ok and arrives, else rejects.
ApiRequest(i, arrives) ==
  /\ i \in 1..Len(wizard.calls)
  /\ wizard.calls[i].status = "sent"
  /\ CASE wizard.calls[i].handler = "handleCompanySubmit" ->
            CompanyPost(session, wizard.calls[i].revenue)
       [] wizard.calls[i].handler = "handleKYCVerification" -> KycVerify(session)
       [] wizard.calls[i].handler = "handleFinancialsLink" -> FinancialsLink(session, TRUE)
  /\ wizard' = [wizard EXCEPT !.calls[i].status =
                  IF arrives /\ response'.status = 200 THEN "resolved" ELSE "rejected"]
  /\ UNCHANGED <<messages, session, requests>>

\* fetch fails before the request reaches the backend.
FetchFails(i) ==
  /\ i \in 1..Len(wizard.calls)
  /\ wizard.calls[i].status = "sent"
  /\ wizard' = [wizard EXCEPT !.calls[i].status = "rejected"]
  /\ WizardFrame

\* The sequence without its i-th element.
Remove(seq, i) == SubSeq(seq, 1, i - 1) \o SubSeq(seq, i + 1, Len(seq))

\* A handler that moves to the next step in its finally block, whatever the
\* outcome of the call.
ResumeAdvancesInFinally(i) ==
  /\ i \in 1..Len(wizard.calls)
  /\ wizard.calls[i].status # "sent"
  /\ LET handler == wizard.calls[i].handler
         settled == [wizard EXCEPT !.calls = Remove(@, i)]
     IN  wizard' =
           IF wizard.page # "/onboarding" THEN settled
           ELSE CASE handler = "handleCompanySubmit" ->
                       [settled EXCEPT !.isLoading = FALSE, !.currentStep = 2]
                  [] handler = "handleKYCVerification" ->
                       [settled EXCEPT !.isLoading = FALSE, !.kycVerified = TRUE,
                                       !.currentStep = 3]
                  [] handler = "handleFinancialsLink" ->
                       [settled EXCEPT !.isLoading = FALSE, !.financialsLinked = TRUE,
                                       !.currentStep = 4]
  /\ WizardFrame

\* The handler of the i-th call resumes after its await: try, catch, finally.
Resume(i) ==
  /\ i \in 1..Len(wizard.calls)
  /\ wizard.calls[i].status # "sent"
  /\ LET handler == wizard.calls[i].handler
         resolved == wizard.calls[i].status = "resolved"
         mounted == wizard.page = "/onboarding"
         settled == [wizard EXCEPT !.calls = Remove(@, i)]
     IN  wizard' =
           IF ~mounted THEN settled
           ELSE IF ~resolved
           THEN [settled EXCEPT
                   !.isLoading = FALSE,
                   !.alert = CASE handler = "handleCompanySubmit" ->
                                    "Failed to save company data. Please try again."
                               [] handler = "handleKYCVerification" ->
                                    "KYC verification failed. Please try again."
                               [] handler = "handleFinancialsLink" ->
                                    "Financials linking failed. Please try again."]
           ELSE CASE handler = "handleCompanySubmit" ->
                       [settled EXCEPT !.isLoading = FALSE, !.currentStep = 2]
                  [] handler = "handleKYCVerification" ->
                       [settled EXCEPT !.isLoading = FALSE, !.kycVerified = TRUE,
                                       !.currentStep = 3]
                  [] handler = "handleFinancialsLink" ->
                       [settled EXCEPT !.isLoading = FALSE, !.financialsLinked = TRUE,
                                       !.currentStep = 4]
  /\ WizardFrame

NextWizard ==
  \/ \E value \in FormNames : SetName(value)
  \/ \E value \in FormSectors : SetSector(value)
  \/ \E value \in FormTargetRaises : SetTargetRaise(value)
  \/ \E value \in FormRevenues : SetRevenue(value)
  \/ HandleCompanySubmit
  \/ HandleKYCVerification
  \/ HandleFinancialsLink
  \/ CompleteOnboarding
  \/ \E i \in 1..MaxPendingCalls, arrives \in BOOLEAN : ApiRequest(i, arrives)
  \/ \E i \in 1..MaxPendingCalls : FetchFails(i)
  \/ \E i \in 1..MaxPendingCalls : Resume(i)

SpecWizard == Init /\ [][NextWizard]_vars

(***************************************************************************)
(* Properties of the score route.  They are stated on the reply of the     *)
(* last request: the snapshot the handler scored, the running score after  *)
(* each step and the result.                                               *)
(***************************************************************************)
\* The last request was GET /api/score and it found a company.
ScoreComputed == response.route = "GET /api/score" /\ response.status # 404

\* The last request was GET /api/score and it was answered with a score.
ScoreServed == response.route = "GET /api/score" /\ response.status = 200

\* Points each category added to the running score of the last score request.
KycAdded == response.locals.afterKyc
FinancialsAdded == response.locals.afterFinancials - response.locals.afterKyc
DocumentsAdded == response.locals.afterDocuments - response.locals.afterFinancials
RevenueAdded == response.locals.afterRevenue - response.locals.afterDocuments

\* The documents reason the specification gives for d documents.
ExpectedDocumentsReason(d) ==
  CASE d = 1 -> "1 docs uploaded (need 3+ for full points)"
    [] d = 2 -> "2 docs uploaded (need 3+ for full points)"
    [] d = 3 -> "3 docs uploaded"
    [] d = 4 -> "4 docs uploaded"
    [] d = 5 -> "5 docs uploaded"
    [] OTHER -> ToString(d) \o " docs uploaded"

\* The revenue reason the specification gives, thousands separated.
ExpectedRevenueReason(r) ==
  CASE r = 40000 -> "Revenue scaled to $40,000"
    [] r = 79999 -> "Revenue scaled to $79,999"
    [] r = 80000 -> "Revenue scaled to $80,000"
    [] r = 999999 -> "Revenue scaled to $999,999"
    [] r = 1000000 -> "Revenue scaled to $1,000,000"
    [] r = 1000001 -> "Revenue scaled to $1,000,001"
    [] r = 2000000 -> "Revenue scaled to $2,000,000"
    [] OTHER -> "Revenue scaled to $" \o ToLocaleString(r)

\* Every string that is a documents reason for some document count.
DocumentsReasons ==
  {DocumentsFullReason(n) : n \in 0..(MaxDocumentId + 2)}
    \cup {DocumentsPartReason(n) : n \in 0..(MaxDocumentId + 2)}

\* Number of reasons the flags of the scored snapshot put before the
\* documents reason, and before the revenue reason.
ReasonsBeforeDocuments ==
  (IF response.snapshot.kycVerified THEN 1 ELSE 0)
    + (IF response.snapshot.financialsLinked THEN 1 ELSE 0)
ReasonsBeforeRevenue ==
  ReasonsBeforeDocuments + (IF response.snapshot.documentCount > 0 THEN 1 ELSE 0)

\* C1: for boolean flags and any non-negative documentCount and revenue the
\* score the computation produces, and the score sent, is an integer in
\* [0, 100].
C1_ScoreInRange ==
  ScoreComputed =>
    /\ response.locals.score \in 0..100
    /\ response.status = 200 => response.data.score \in 0..100

C1_Witness ==
  /\ ScoreServed
  /\ response.snapshot.documentCount = 1
  /\ response.snapshot.revenue = 999999
  /\ response.data.score = 82

\* C2: the reasons are in evaluation order: KYC, financials, documents,
\* revenue, and a category's reason is present exactly when the category
\* added more than 0 points.
C2_ReasonsInEvaluationOrder ==
  ScoreComputed =>
    response.locals.reasons =
      (IF KycAdded > 0 THEN <<"KYC verified">> ELSE <<>>)
        \o (IF FinancialsAdded > 0 THEN <<"Financials linked">> ELSE <<>>)
        \o (IF DocumentsAdded > 0
            THEN <<ExpectedDocumentsReason(response.snapshot.documentCount)>>
            ELSE <<>>)
        \o (IF RevenueAdded > 0
            THEN <<ExpectedRevenueReason(response.snapshot.revenue)>>
            ELSE <<>>)

C2_Witness ==
  /\ ScoreServed
  /\ response.snapshot.kycVerified
  /\ ~response.snapshot.financialsLinked
  /\ response.snapshot.documentCount = 0
  /\ response.data.reasons = <<"KYC verified", "Revenue scaled to $80,000">>

\* C3: the documents step adds 25 points with reason "d docs uploaded" when
\* d >= 3, floor((d/3)*25) points (8 for d = 1, 16 for d = 2) with reason
\* "d docs uploaded (need 3+ for full points)" when 0 < d < 3, and nothing,
\* with no reason, when d = 0.
C3_DocumentPoints ==
  ScoreComputed =>
    LET d == response.snapshot.documentCount
        k == ReasonsBeforeDocuments
        reasons == response.locals.reasons
    IN  /\ (d >= 3) => /\ DocumentsAdded = 25
                       /\ Len(reasons) > k
                       /\ reasons[k + 1] = ExpectedDocumentsReason(d)
        /\ (d = 1) => /\ DocumentsAdded = 8
                      /\ Len(reasons) > k
                      /\ reasons[k + 1] = "1 docs uploaded (need 3+ for full points)"
        /\ (d = 2) => /\ DocumentsAdded = 16
                      /\ Len(reasons) > k
                      /\ reasons[k + 1] = "2 docs uploaded (need 3+ for full points)"
        /\ (d = 0) => /\ DocumentsAdded = 0
                      /\ \A i \in 1..Len(reasons) : reasons[i] \notin DocumentsReasons

C3_Witness ==
  /\ ScoreServed
  /\ response.snapshot.documentCount = 2
  /\ response.snapshot.kycVerified
  /\ DocumentsAdded = 16
  /\ response.data.reasons[2] = "2 docs uploaded (need 3+ for full points)"

\* C4: every revenue >= 1,000,000 contributes exactly 25 points, the same
\* as revenue = 1,000,000 with the other fields held fixed.
C4_RevenueAboveCap ==
  (ScoreComputed /\ response.snapshot.revenue >= 1000000) =>
    LET atCap == ComputeScore([response.snapshot EXCEPT !.revenue = 1000000],
                              response.snapshot.documentCount)
    IN  /\ RevenueAdded = 25
        /\ RevenueAdded = atCap.afterRevenue - atCap.afterDocuments
        /\ response.locals.score = atCap.score

C4_Witness ==
  /\ ScoreServed
  /\ response.snapshot.revenue = 2000000
  /\ RevenueAdded = 25

\* C5: the revenue points are p = floor(min(revenue / 1,000,000, 1) * 25),
\* added with the revenue reason only when p > 0: a revenue below 40,000
\* adds 0 points and no reason, a revenue from 40,000 up adds at least 1
\* point and the reason.
C5_RevenuePoints ==
  ScoreComputed =>
    LET r == response.snapshot.revenue
        n == ReasonsBeforeRevenue
        reasons == response.locals.reasons
    IN  /\ RevenueAdded = (IF r >= 1000000 THEN 25 ELSE (r * 25) \div 1000000)
        /\ (r < 40000) => (RevenueAdded = 0 /\ Len(reasons) = n)
        /\ (r >= 40000) => /\ RevenueAdded >= 1
                           /\ Len(reasons) = n + 1
                           /\ reasons[n + 1] = ExpectedRevenueReason(r)

C5_Witness ==
  /\ ScoreServed
  /\ response.snapshot.revenue = 39999
  /\ RevenueAdded = 0
  /\ response.snapshot.documentCount = 1
  /\ Len(response.data.reasons) = ReasonsBeforeRevenue

\* C6: of two companies that differ only in documentCount the one with more
\* documents never has the smaller score.
C6_MonotoneInDocuments ==
  ScoreComputed =>
    \A d2 \in 0..(MaxDocumentId + 2) :
      LET other == ComputeScore(response.snapshot, d2).score
      IN  /\ (d2 >= response.snapshot.documentCount) => other >= response.locals.score
          /\ (d2 <= response.snapshot.documentCount) => other <= response.locals.score

C6_Witness ==
  /\ ScoreServed
  /\ response.snapshot.documentCount = 2
  /\ ~response.snapshot.kycVerified
  /\ ~response.snapshot.financialsLinked
  /\ response.snapshot.revenue = 0
  /\ response.data.score = 16

\* C7: of two companies that differ only in revenue the one with the larger
\* revenue never has the smaller score.
C7_MonotoneInRevenue ==
  ScoreComputed =>
    \A r2 \in RevenueValues :
      LET other == ComputeScore([response.snapshot EXCEPT !.revenue = r2],
                                response.snapshot.documentCount).score
      IN  /\ (r2 >= response.snapshot.revenue) => other >= response.locals.score
          /\ (r2 <= response.snapshot.revenue) => other <= response.locals.score

C7_Witness ==
  /\ ScoreServed
  /\ response.snapshot.revenue = 999999
  /\ response.snapshot.documentCount = 0
  /\ ~response.snapshot.kycVerified
  /\ response.data.score \in {24, 44}

\* C8: the raw sum of the four contributions never exceeds 100, so the
\* final clamp never changes the score.
C8_ClampUnreachable ==
  ScoreComputed =>
    /\ response.locals.afterRevenue <= 100
    /\ response.locals.afterRevenue <= 30 + 20 + 25 + 25
    /\ response.locals.score = response.locals.afterRevenue

C8_Witness ==
  /\ ScoreServed
  /\ response.snapshot.documentCount = 4
  /\ response.snapshot.revenue = 2000000
  /\ response.locals.afterRevenue = 100

\* C9: kycVerified = true, financialsLinked = false, documentCount = 0 and
\* revenue = 0 give score 30 and reasons exactly ["KYC verified"].
C9_KycAlone ==
  (/\ response.route = "GET /api/score"
   /\ response.snapshot = [kycVerified |-> TRUE, financialsLinked |-> FALSE,
                           documentCount |-> 0, revenue |-> 0]) =>
    /\ response.status = 200
    /\ response.data.score = 30
    /\ response.data.reasons = <<"KYC verified">>

C9_Witness ==
  /\ ScoreServed
  /\ response.snapshot = [kycVerified |-> TRUE, financialsLinked |-> FALSE,
                          documentCount |-> 0, revenue |-> 0]

\* C10: both flags true, documentCount = 3 and revenue = 1,000,000 give
\* score exactly 100, and so does any company with both flags true,
\* documentCount >= 3 and revenue >= 1,000,000.
C10_AllMaximal ==
  (/\ response.route = "GET /api/score"
   /\ response.snapshot.kycVerified
   /\ response.snapshot.financialsLinked
   /\ response.snapshot.documentCount >= 3
   /\ response.snapshot.revenue >= 1000000) =>
    /\ response.status = 200
    /\ response.data.score = 100

C10_Witness ==
  /\ ScoreServed
  /\ response.snapshot = [kycVerified |-> TRUE, financialsLinked |-> TRUE,
                          documentCount |-> 3, revenue |-> 1000000]
  /\ response.data.score = 100

\* C11: both flags false, documentCount = 0 and revenue = 0 give score 0
\* and an empty reasons list.
C11_NothingDone ==
  (/\ response.route = "GET /api/score"
   /\ response.snapshot = [kycVerified |-> FALSE, financialsLinked |-> FALSE,
                           documentCount |-> 0, revenue |-> 0]) =>
    /\ response.status = 200
    /\ response.data.score = 0
    /\ response.data.reasons = <<>>

C11_Witness ==
  /\ ScoreServed
  /\ response.snapshot = [kycVerified |-> FALSE, financialsLinked |-> FALSE,
                          documentCount |-> 0, revenue |-> 0]
  /\ response.data = [score |-> 0, reasons |-> <<>>]

(***************************************************************************)
(* Properties of the score and breakdown routes as requests on the store.  *)
(***************************************************************************)
ScoreRoutes == {"GET /api/score", "GET /api/score/breakdown"}

\* The last request was GET /api/score/breakdown, answered with a breakdown.
BreakdownServed ==
  response.route = "GET /api/score/breakdown" /\ response.status = 200

\* C12: computing the score or the breakdown has no side effects: a step
\* that answers GET /api/score or GET /api/score/breakdown leaves every
\* user, company, document and notification as it was.
C12_NoSideEffects ==
  [][response'.route \in ScoreRoutes =>
       /\ users' = users
       /\ companies' = companies
       /\ documents' = documents
       /\ nextDocumentId' = nextDocumentId
       /\ notifications' = notifications
       /\ messages' = messages]_vars

C12_Witness ==
  /\ ScoreServed
  /\ response.snapshot.documentCount = 2
  /\ Cardinality(documents) = 2
  /\ nextDocumentId = 4
  /\ BagCardinality(notifications) = 4

\* C13: whenever a company exists for the user, GET /api/score answers
\* success with a score result, never an error: the schema check accepts
\* every result.
C13_ScoreNeverFails ==
  (response.route = "GET /api/score"
     /\ \E i \in 1..Len(companies) : companies[i].userId = 1) =>
    /\ response.status = 200
    /\ response.data.score = response.locals.score
    /\ response.data.reasons = response.locals.reasons

C13_Witness ==
  /\ ScoreServed
  /\ response.snapshot.revenue = 39999
  /\ response.snapshot.documentCount = 0
  /\ response.data.score = 0

\* The four points of the served breakdown, in millionths of a point.
BreakdownSum ==
  response.data.kycVerified.points + response.data.financialsLinked.points
    + response.data.documents.points + response.data.revenue.points

\* The result of the score route for the company of the served breakdown.
ScoreOfBreakdown ==
  ComputeScore(response.snapshot, response.snapshot.documentCount)

\* C15 as stated: the breakdown's document points are min(d, 3) * 8.33,
\* they differ from the document points of the score route for one, two and
\* three or more documents, and the four points of the breakdown do not
\* sum to the score.
C15_Original ==
  BreakdownServed =>
    LET d == response.snapshot.documentCount
        scoreDocs == ScoreOfBreakdown.afterDocuments - ScoreOfBreakdown.afterFinancials
    IN  /\ response.data.documents.points = Min(d, 3) * 8330000
        /\ (d >= 1) => response.data.documents.points # scoreDocs * 1000000
        /\ BreakdownSum # ScoreOfBreakdown.score * 1000000

\* C15, amended: the breakdown's document points are min(d, 3) * 8.33; for a
\* company with at least one document they differ from the document points
\* of the score route (8.33 vs 8, 16.66 vs 16, 24.99 vs 25), and for a
\* company with one or two documents the four points of the breakdown do not
\* sum to the score.
C15_BreakdownDiverges ==
  BreakdownServed =>
    LET d == response.snapshot.documentCount
        scoreDocs == ScoreOfBreakdown.afterDocuments - ScoreOfBreakdown.afterFinancials
    IN  /\ response.data.documents.points = Min(d, 3) * 8330000
        /\ (d = 1) => (response.data.documents.points = 8330000 /\ scoreDocs = 8)
        /\ (d = 2) => (response.data.documents.points = 16660000 /\ scoreDocs = 16)
        /\ (d >= 3) => (response.data.documents.points = 24990000 /\ scoreDocs = 25)
        /\ (d \in {1, 2}) => BreakdownSum # ScoreOfBreakdown.score * 1000000

C15_Witness ==
  /\ BreakdownServed
  /\ response.snapshot.documentCount = 1
  /\ response.data.documents.points = 8330000
  /\ BreakdownSum > ScoreOfBreakdown.score * 1000000

\* C16: when no company exists for the user, GET /api/score and
\* GET /api/score/breakdown answer 404 'Company not found', never 500 and
\* never a score.
C16_CompanyNotFound ==
  [][(response'.route \in ScoreRoutes
        /\ ~\E i \in 1..Len(companies) : companies[i].userId = 1) =>
       /\ response'.status = 404
       /\ response'.message = "Company not found"
       /\ response'.data = NoData]_vars

C16_Witness ==
  /\ response.route = "GET /api/score/breakdown"
  /\ response.status = 404
  /\ companies = <<>>

(***************************************************************************)
(* Sessions.                                                               *)
(***************************************************************************)
\* C17: every data route (company, KYC, financials, files, score,
\* notifications, messages) acts for the hardcoded user 1: a request gives
\* the same response and has the same effect on storage whether or not it
\* carries a session cookie and whichever user the cookie names.  Stated on
\* steps: a step that is a request to a data route with the browser's cookie
\* is also that request with any other cookie.
C17_SessionIgnored ==
  [][\A route \in DataRoutes :
       (response'.route = route /\ Request(route, session)) =>
         \A cookie \in Cookies : Request(route, cookie)]_vars

\* Logged in as another user than user 1, GET /api/company answered with the
\* company of user 1.
C17_Witness ==
  /\ session.present
  /\ session.valid
  /\ session.value # DemoUserId
  /\ response.route = "GET /api/company"
  /\ response.status = 200
  /\ response.data.company.userId = DemoUserId

\* A cookie authenticates a user: it is present, validly signed and names a
\* row of the user table.
Authenticates(cookie) ==
  cookie.present /\ cookie.valid /\ (\E u \in users : u.id = cookie.value)

\* The row a cookie names.
SessionUser(cookie) == CHOOSE u \in users : u.id = cookie.value

\* C19: GET /api/auth/me returns a user only when the request carries a
\* validly signed cookie naming an existing user, and then it returns that
\* user; in every other case (no cookie, an invalid one, an unknown user,
\* after logout) it answers 401.  Only a successful POST /api/auth/login
\* gives the browser a cookie, the one of the user it returns, and logout
\* leaves it with none.
C19_MeAuthenticated ==
  [][
      /\ \A cookie \in MeCookies :
           (Me(cookie) /\ AuthFrame) =>
             IF Authenticates(cookie)
             THEN /\ response'.status = 200
                  /\ response'.data = [id |-> SessionUser(cookie).id,
                                       email |-> SessionUser(cookie).email]
             ELSE response'.status = 401
      /\ (session' # session /\ session'.present) =>
           /\ response'.route = "POST /api/auth/login"
           /\ response'.status = 200
           /\ session' = SignedCookie(response'.data.userId)
           /\ \E u \in users' : u.id = response'.data.userId
      /\ (response'.route = "POST /api/auth/logout") => (session' = NoCookie)
      /\ (~session.present /\ Me(session) /\ AuthFrame) => (response'.status = 401)
  ]_vars

\* After a login, /api/auth/me answered with the user of the browser's
\* cookie.
C19_Witness ==
  /\ response.route = "GET /api/auth/me"
  /\ response.status = 200
  /\ session = SignedCookie(response.data.id)

(***************************************************************************)
(* File upload.                                                            *)
(***************************************************************************)
\* A step is an upload of a file whose MIME type is not PDF, XLSX or PPTX.
UploadOfOtherType ==
  \E mimetype \in MimeTypes \ AllowedTypes, bytesRead \in BytesReadValues :
    FileUpload(session, TRUE, mimetype, bytesRead) /\ RouteFrame

\* Every stored document has one of the three allowed MIME types.
StoredTypesAllowed == \A d \in documents : d.mimeType \in AllowedTypes

\* C18 as stated: an upload whose MIME type is not PDF, XLSX or PPTX is
\* answered 400 and creates neither a document nor a notification, and every
\* stored document has an allowed MIME type.
C18_Original ==
  /\ []StoredTypesAllowed
  /\ [][UploadOfOtherType =>
          /\ response'.status = 400
          /\ documents' = documents
          /\ notifications' = notifications]_vars

\* C18: an upload whose MIME type is not PDF, XLSX or PPTX is rejected and
\* creates neither a document nor a notification: it is answered 400 when
\* user 1 has a company, and 404 when user 1 has none, which the route
\* checks first.  Every stored document has an allowed MIME type.
C18_UploadValidated ==
  /\ []StoredTypesAllowed
  /\ [][UploadOfOtherType =>
          /\ response'.status = IF FindFirstCompany(DemoUserId) = 0 THEN 404 ELSE 400
          /\ documents' = documents
          /\ notifications' = notifications]_vars

\* With a document stored, an upload was refused for its type.
C18_Witness ==
  /\ response.route = "POST /api/files"
  /\ response.status = 400
  /\ response.message = "Invalid file type. Only PDF, XLSX, and PPTX files are allowed"
  /\ documents # {}


(***************************************************************************)
(* Concurrent score requests.                                              *)
(***************************************************************************)
\* The reply GET /api/score owes for the tables as they are now: 404 with
\* no company for user 1, else the score of the company's flags, revenue
\* and number of documents.
OwedNow(reply) ==
  LET company == FindFirstCompany(DemoUserId) IN
  IF company = 0
  THEN reply.status = 404 /\ reply.message = "Company not found"
  ELSE LET docCount == Cardinality(DocumentsOf(company)) IN
       /\ reply.status = 200
       /\ reply.snapshot = Snapshot(companies[company], docCount)
       /\ reply.data.score = ComputeScore(companies[company], docCount).score
       /\ reply.data.reasons = ComputeScore(companies[company], docCount).reasons

C20_LinearWizard ==
  /\ wizard.currentStep = 1
  /\ [](wizard.currentStep \in 1..4)
  /\ [][wizard'.currentStep # wizard.currentStep =>
          wizard'.currentStep = wizard.currentStep + 1]_vars

\* The wizard went through its steps to the last, with both flags set.
C20_Witness ==
  /\ wizard.currentStep = 4
  /\ wizard.kycVerified
  /\ wizard.financialsLinked
  /\ wizard.calls = <<>>


\* The handler of each step, and the route its API call goes to.
StepHandler ==
  [step \in 1..3 |->
     CASE step = 1 -> [handler |-> "handleCompanySubmit", route |-> "POST /api/company"]
       [] step = 2 -> [handler |-> "handleKYCVerification", route |-> "POST /api/kyc/verify"]
       [] step = 3 -> [handler |-> "handleFinancialsLink",
                       route |-> "POST /api/financials/link"]]

\* A handler call finishes in this step: it leaves the awaited calls.
HandlerFinishes == Len(wizard'.calls) < Len(wizard.calls)

\* C21: the wizard saves, then moves on.  currentStep advances only in the
\* step in which the handler of the shown step finishes a call that the
\* backend answered with success; when the call failed, or when validation
\* rejects the form of step 1 (no call is made), currentStep is unchanged;
\* and isLoading is false whenever a handler has finished, so whenever no
\* call is awaited.
C21_SaveThenAdvance ==
  /\ [](wizard.calls = <<>> => ~wizard.isLoading)
  /\ [][/\ wizard'.currentStep # wizard.currentStep =>
             \E i \in 1..Len(wizard.calls) :
               /\ wizard.calls[i].status = "resolved"
               /\ wizard.calls[i].handler = StepHandler[wizard.currentStep].handler
               /\ wizard'.calls = Remove(wizard.calls, i)
        /\ \A i \in 1..Len(wizard.calls) :
             (/\ wizard.calls[i].status = "sent"
              /\ Len(wizard'.calls) = Len(wizard.calls)
              /\ wizard'.calls[i].status = "resolved") =>
               /\ response'.status = 200
               /\ \E step \in 1..3 :
                    /\ StepHandler[step].handler = wizard.calls[i].handler
                    /\ StepHandler[step].route = response'.route
        /\ (HandlerFinishes /\ \A i \in 1..Len(wizard.calls) :
                                 wizard.calls[i].status = "rejected") =>
             wizard'.currentStep = wizard.currentStep
        /\ (wizard'.alert # wizard.alert /\ wizard'.calls = wizard.calls) =>
             /\ wizard'.currentStep = wizard.currentStep
             /\ ~wizard'.isLoading
        /\ HandlerFinishes => ~wizard'.isLoading
     ]_vars

\* KYC verification reached the backend and set the flag, its reply was
\* lost, and the handler finished: the wizard stays at step 2, not loading.
C21_Witness ==
  /\ wizard.currentStep = 2
  /\ wizard.alert = "KYC verification failed. Please try again."
  /\ wizard.calls = <<>>
  /\ ~wizard.isLoading
  /\ ~wizard.kycVerified
  /\ \E c \in DOMAIN companies : companies[c].kycVerified


(***************************************************************************)
(* Notifications.                                                          *)
(***************************************************************************)
\* The number of notifications of user 1 of a type with a value of readAt.
RowsWith(table, type, readAt) ==
  CopiesIn([userId |-> DemoUserId, type |-> type, readAt |-> readAt], table)

NotificationTypes == {"kyc_completed", "financials_linked", "file_uploaded"}

\* C22: PATCH /api/notifications/read-all marks all notifications as read.
\* A step it answers sets readAt, to one date, on every notification of
\* user 1 whose readAt was null and leaves the readAt of those already read
\* as it was: no unread row is left, and of each type the rows read at each
\* date are the ones read at that date before, plus, at the new date, the
\* rows that were unread.  When the next request served is GET
\* /unread-count, it returns 0.
C22_ReadAll ==
  /\ [](response.route = "PATCH /api/notifications/read-all" =>
          \A n \in DOMAIN notifications : n.readAt # "null")
  /\ [][/\ response'.route = "PATCH /api/notifications/read-all" =>
             \E now \in Dates :
               \A type \in NotificationTypes, date \in Dates :
                 RowsWith(notifications', type, date) =
                   RowsWith(notifications, type, date)
                     + (IF date = now THEN RowsWith(notifications, type, "null") ELSE 0)
        /\ (/\ response.route = "PATCH /api/notifications/read-all"
            /\ response'.route = "GET /api/notifications/unread-count") =>
             response'.data.count = 0
     ]_vars

\* read-all was served when one notification was already read at the earlier
\* date and another was unread: the table now holds a row of each date.
C22_Witness ==
  /\ response.route = "PATCH /api/notifications/read-all"
  /\ RowsWith(notifications, "kyc_completed", "date") = 1
  /\ RowsWith(notifications, "kyc_completed", "later date") = 1
  /\ RowsWith(notifications, "financials_linked", "later date") = 1


(***************************************************************************)
(* File deletion.                                                          *)
(***************************************************************************)
\* An id is numeric: every character of its text is a digit.
Numeric(id) == \A i \in 1..Len(id) : IsDigit(id[i])

\* The documents of the company of user 1.
DocumentsOfDemoUser ==
  IF FindFirstCompany(DemoUserId) = 0 THEN {} ELSE DocumentsOf(FindFirstCompany(DemoUserId))

\* C23: DELETE /api/files/:id removes exactly the document with that id
\* when it belongs to the company of user 1 and leaves every other document
\* unchanged, also when removing the file from the filesystem fails; a
\* non-numeric id is answered 400 and an unknown id 404, both leaving the
\* documents unchanged.
C23_DeleteExact ==
  [][\A id \in FileIds, unlinkOk \in BOOLEAN :
       (FileDelete(session, id, unlinkOk) /\ RouteFrame) =>
         IF ~Numeric(id)
         THEN response'.status = 400 /\ documents' = documents
         ELSE IF \E d \in DocumentsOfDemoUser : d.id = DecimalValue(id)
         THEN /\ response'.status = 200
              /\ documents' = {d \in documents : d.id # DecimalValue(id)}
         ELSE response'.status = 404 /\ documents' = documents]_vars

\* The same with an id counted as numeric as soon as it starts with a
\* digit, and naming the document of the number it starts with.
C23_DeleteByLeadingNumber ==
  [][\A id \in FileIds, unlinkOk \in BOOLEAN :
       (FileDelete(session, id, unlinkOk) /\ RouteFrame) =>
         IF ~IsDigit(id[1])
         THEN response'.status = 400 /\ documents' = documents
         ELSE IF \E d \in DocumentsOfDemoUser : d.id = ParseInt(id)
         THEN /\ response'.status = 200
              /\ documents' = {d \in documents : d.id # ParseInt(id)}
         ELSE response'.status = 404 /\ documents' = documents]_vars


(***************************************************************************)
(* The company of a user.                                                  *)
(***************************************************************************)
\* The companies of user 1.
CompaniesOfDemoUser == {c \in DOMAIN companies : companies[c].userId = DemoUserId}

\* C24: POST /api/company is create-or-update per user: after any sequence
\* of requests, also with their find-then-create steps interleaved, at most
\* one company exists for user 1.
C24_AtMostOneCompany == Cardinality(CompaniesOfDemoUser) <= 1

(***************************************************************************)
(* The flags of a company.                                                 *)
(***************************************************************************)
\* C25: kycVerified and financialsLinked are monotonic: once a flag of a
\* company is true, no call of any route sets it back to false.
C25_FlagsMonotonic ==
  [][\A c \in DOMAIN companies :
       /\ c \in DOMAIN companies'
       /\ companies[c].kycVerified => companies'[c].kycVerified
       /\ companies[c].financialsLinked => companies'[c].financialsLinked]_vars

\* A company with both flags set has been updated through POST /api/company.
C25_Witness ==
  /\ response.route = "POST /api/company"
  /\ response.message = "Company updated successfully"
  /\ \E c \in DOMAIN companies :
       companies[c].kycVerified /\ companies[c].financialsLinked

(***************************************************************************)
(* The update of a company.                                                *)
(***************************************************************************)
\* The points the score handler adds for KYC, financials and documents.
CategoryPoints(company, docCount) ==
  LET locals == ComputeScore(company, docCount)
  IN  [kyc |-> locals.afterKyc,
       financials |-> locals.afterFinancials - locals.afterKyc,
       documents |-> locals.afterDocuments - locals.afterFinancials]

\* C26: an update of the existing company through POST /api/company changes
\* its revenue (and its name, sector and targetRaise) only: the ids of the
\* companies, the company's userId, kycVerified and financialsLinked, the
\* other companies, the documents and the messages are unchanged, so the
\* points of the KYC, financials and documents categories are unchanged and
\* of the four score categories only the revenue contribution can change.
C26_UpdateChangesOnlyRevenue ==
  [][(/\ response'.route = "POST /api/company"
      /\ response'.message = "Company updated successfully")
     => LET c == FindFirstCompany(DemoUserId)
            docCount == Cardinality({d \in documents : d.companyId = c})
            docCountAfter == Cardinality({d \in documents' : d.companyId = c})
        IN  /\ c # 0
            /\ DOMAIN companies' = DOMAIN companies
            /\ \A d \in DOMAIN companies : d # c => companies'[d] = companies[d]
            /\ companies'[c].userId = companies[c].userId
            /\ companies'[c].kycVerified = companies[c].kycVerified
            /\ companies'[c].financialsLinked = companies[c].financialsLinked
            /\ documents' = documents
            /\ messages' = messages
            /\ CategoryPoints(companies'[c], docCountAfter)
                 = CategoryPoints(companies[c], docCount)]_vars

\* A verified, linked company with documents and revenue points has been
\* updated.
C26_Witness ==
  /\ response.route = "POST /api/company"
  /\ response.message = "Company updated successfully"
  /\ LET c == FindFirstCompany(DemoUserId)
     IN  /\ c # 0
         /\ companies[c].kycVerified
         /\ companies[c].financialsLinked
         /\ DocumentsOf(c) # {}
         /\ RevenuePoints(companies[c].revenue) > 0

(***************************************************************************)
(* The wizard's steps and the backend.                                     *)
(***************************************************************************)
\* The least score of a verified and linked company: 30 + 20.
VerifiedLinkedScore == KycMaxPoints + FinancialsMaxPoints

\* C27: whenever the wizard shows step 4, the backend holds a company of
\* user 1 with kycVerified and financialsLinked true, and GET /api/score
\* then answers a score of at least 50; the wizard's own kycVerified is true
\* at every step from 3 on, and its financialsLinked is true at step 4.
C27_StepFourVerifiedAndLinked ==
  /\ wizard.currentStep = 4 =>
       LET c == FindFirstCompany(DemoUserId)
       IN  /\ c # 0
           /\ companies[c].kycVerified
           /\ companies[c].financialsLinked
           /\ ScoreReply(session).status = 200
           /\ ScoreReply(session).data.score >= VerifiedLinkedScore
  /\ wizard.currentStep >= 3 => wizard.kycVerified
  /\ wizard.currentStep = 4 => wizard.financialsLinked

\* The wizard shows "Onboarding Complete".
C27_Witness == wizard.currentStep = 4 /\ wizard.calls = <<>> /\ ~wizard.isLoading


====
